---- MODULE Spec2Model ----
(***************************************************************************)
(* Model of the two utilities of the repository:                           *)
(*   src/server.py          - PWA development file server                  *)
(*   src/generate_icons.py  - placeholder icon generator                   *)
(*                                                                         *)
(* Request paths and the port argument are sequences of one-character      *)
(* strings, so that str.endswith, the query split and int() are computed   *)
(* rather than assumed.  Requests carry an HTTP/1.x version, i.e. every     *)
(* response that is sent starts with a status line.                        *)
(***************************************************************************)
EXTENDS Integers, Sequences, FiniteSets, TLC

VARIABLES
    \* ---- server.py, __main__ block ----
    mainPc,      \* position in the __main__ block / run_server
    argv,        \* sys.argv[1:] : <<>> or <<arg>>, arg a character sequence
    port,        \* the local variable port
    runCalls,    \* sequence of the arguments run_server was called with
    output,      \* lines printed by the server process (tags)
    \* ---- server.py, run_server and the handler ----
    state,       \* lifecycle of the TCP server
    socketOpen,  \* the listening socket is open
    mimeTypes,   \* extensions registered with mimetypes.add_type
    fsFiles,     \* regular files of the served directory (url paths)
    fsDirs,      \* sub-directories of the served directory (url paths)
    request,     \* the request of the connection last accepted
    response,    \* what was written to that connection
    \* ---- generate_icons.py ----
    iconPc,      \* position in main()
    iconIdx,     \* index of the next size in the sizes list
    iconsDir,    \* the icons directory exists
    saved,       \* log of img.save calls: <<[name, width, height]>>
    printed,     \* lines printed by the generator
    lastIcon     \* what the last create_icon call drew

vars == <<mainPc, argv, port, runCalls, output, state, socketOpen, mimeTypes,
          fsFiles, fsDirs, request, response,
          iconPc, iconIdx, iconsDir, saved, printed, lastIcon>>

mainVars == <<mainPc, argv, port, runCalls, output>>
serveVars == <<state, socketOpen, mimeTypes, fsFiles, fsDirs, request, response>>
iconVars == <<iconPc, iconIdx, iconsDir, saved, printed, lastIcon>>

(***************************************************************************)
(* Bounds                                                                  *)
(***************************************************************************)
MaxArgLen == 2

(***************************************************************************)
(* Character sequences                                                     *)
(***************************************************************************)
EndsWith(s, suffix) ==
    /\ Len(s) >= Len(suffix)
    /\ SubSeq(s, Len(s) - Len(suffix) + 1, Len(s)) = suffix

RECURSIVE IndexOf(_, _, _)
\* smallest i >= from with s[i] = c, or 0
IndexOf(s, c, from) ==
    IF from > Len(s) THEN 0
    ELSE IF s[from] = c THEN from
    ELSE IndexOf(s, c, from + 1)

RECURSIVE LastIndexOf(_, _, _)
\* largest i <= from with s[i] = c, or 0
LastIndexOf(s, c, from) ==
    IF from < 1 THEN 0
    ELSE IF s[from] = c THEN from
    ELSE LastIndexOf(s, c, from - 1)

SW_JS == <<"s", "w", ".", "j", "s">>
MANIFEST_JSON == <<"m", "a", "n", "i", "f", "e", "s", "t", ".", "j", "s", "o", "n">>
INDEX_HTML == <<"i", "n", "d", "e", "x", ".", "h", "t", "m", "l">>
INDEX_HTM == <<"i", "n", "d", "e", "x", ".", "h", "t", "m">>

RootPath == <<"/">>
IndexPath == <<"/">> \o INDEX_HTML
IndexHtmPath == <<"/">> \o INDEX_HTM
SwPath == <<"/">> \o SW_JS
ManifestPath == <<"/">> \o MANIFEST_JSON
IconsPath == <<"/", "i", "c", "o", "n", "s">>


IconsSlashPath == IconsPath \o <<"/">>
CssPath == <<"/", "a", ".", "c", "s", "s">>
XswPath == <<"/", "x">> \o SW_JS
SwQueryPath == SwPath \o <<"?", "v">>
MissingPath == <<"/", "n", "o">>

\* the request targets the model sends
Paths == {RootPath, IndexPath, SwPath, ManifestPath, IconsPath, IconsSlashPath,
          CssPath, XswPath, SwQueryPath, MissingPath}

\* the files and sub-directories the served directory may hold
PossibleFiles == {IndexPath, IndexHtmPath, SwPath, ManifestPath}
PossibleDirs == {IconsPath}

Commands == {"GET", "HEAD", "POST"}

(***************************************************************************)
(* Requests and responses                                                  *)
(***************************************************************************)
\* line: "ok" for a request line that parse_request accepts; "badversion"
\* and "toolong" are rejected by the library with send_error before
\* self.path is assigned.
Requests ==
    [line : {"ok"}, command : Commands, path : Paths, notModified : BOOLEAN]
    \cup [line : {"badversion", "toolong"}, command : {"GET"},
          path : {RootPath}, notModified : {FALSE}]

NoRequest == [line |-> "none", command |-> "", path |-> <<>>, notModified |-> FALSE]

NoBody == [kind |-> "none", of |-> <<>>]

\* nothing was written to the connection
NoResponse == [sent |-> FALSE, raised |-> FALSE, status |-> 0,
               headers |-> <<>>, body |-> NoBody]

\* the handler raised before flush_headers: nothing was written
RaisedResponse == [NoResponse EXCEPT !.raised = TRUE]

Header(name, value) == <<name, value>>

(***************************************************************************)
(* PWAHTTPRequestHandler.end_headers                                       *)
(***************************************************************************)
FixedHeaders ==
    << Header("Cache-Control", "no-cache, no-store, must-revalidate"),
       Header("Pragma", "no-cache"),
       Header("Expires", "0"),
       Header("X-Content-Type-Options", "nosniff"),
       Header("X-Frame-Options", "DENY"),
       Header("X-XSS-Protection", "1; mode=block") >>

\* the service-worker branch without the content type
ServiceWorkerHeaders_scope_only ==
    << Header("Service-Worker-Allowed", "/") >>

ServiceWorkerHeaders ==
    << Header("Service-Worker-Allowed", "/"),
       Header("Content-Type", "application/javascript") >>

\* the manifest branch leaving the content type to the delegate
ManifestHeaders_none == <<>>

ManifestHeaders ==
    << Header("Content-Type", "application/manifest+json") >>

\* end_headers without the X-Frame-Options header
end_headers_no_frame_options(path, buffer) ==
    buffer \o SubSeq(FixedHeaders, 1, 4) \o SubSeq(FixedHeaders, 6, 6)
           \o (IF EndsWith(path, SW_JS) THEN ServiceWorkerHeaders ELSE <<>>)
           \o (IF EndsWith(path, MANIFEST_JSON) THEN ManifestHeaders ELSE <<>>)

\* buffer: the headers the delegate has put into the headers buffer.
\* The result is the header section that is flushed to the client.
end_headers(path, buffer) ==
    buffer \o FixedHeaders
           \o (IF EndsWith(path, SW_JS) THEN ServiceWorkerHeaders ELSE <<>>)
           \o (IF EndsWith(path, MANIFEST_JSON) THEN ManifestHeaders ELSE <<>>)

(***************************************************************************)
(* The static-file delegate (http.server.SimpleHTTPRequestHandler), as     *)
(* reached through super().do_GET() and the inherited do_HEAD.             *)
(***************************************************************************)
\* send_response: status line, Server and Date
StatusHeaders == << Header("Server", "<version>"), Header("Date", "<now>") >>

\* send_error(code): every error response is finished by self.end_headers()
send_error(path, command, code) ==
    [sent |-> TRUE, raised |-> FALSE, status |-> code,
     headers |-> end_headers(path,
                    StatusHeaders \o
                    << Header("Connection", "close"),
                       Header("Content-Type", "text/html;charset=utf-8"),
                       Header("Content-Length", "<len>") >>),
     body |-> IF command # "HEAD" THEN [kind |-> "error", of |-> <<>>] ELSE NoBody]

\* translate_path: the query and fragment are dropped
translate_path(path) ==
    LET q == IndexOf(path, "?", 1)
        p == IF q = 0 THEN path ELSE SubSeq(path, 1, q - 1)
        h == IndexOf(p, "#", 1)
    IN  IF h = 0 THEN p ELSE SubSeq(p, 1, h - 1)

StripSlash(p) ==
    IF Len(p) > 0 /\ p[Len(p)] = "/" THEN SubSeq(p, 1, Len(p) - 1) ELSE p

\* os.path.isdir of the translated path; the served directory itself exists
isdir(dirs, p) == StripSlash(p) = <<>> \/ StripSlash(p) \in dirs

\* posixpath.splitext(path)[1]
splitext(p) ==
    LET slash == LastIndexOf(p, "/", Len(p))
        dot == LastIndexOf(p, ".", Len(p))
    IN  IF dot > slash + 1 THEN SubSeq(p, dot, Len(p)) ELSE <<>>

\* the mime types run_server registers with mimetypes.add_type
RegisteredTypes ==
    { << <<".", "j", "s">>, "application/javascript" >>,
      << <<".", "j", "s", "o", "n">>, "application/manifest+json" >>,
      << <<".", "c", "s", "s">>, "text/css" >>,
      << <<".", "p", "n", "g">>, "image/png" >>,
      << <<".", "s", "v", "g">>, "image/svg+xml" >> }

\* the entries of mimetypes' own table the model's paths can hit
DefaultTypes ==
    { << <<".", "h", "t", "m", "l">>, "text/html" >>,
      << <<".", "h", "t", "m">>, "text/html" >>,
      << <<".", "j", "s">>, "application/javascript" >>,
      << <<".", "j", "s", "o", "n">>, "application/json" >>,
      << <<".", "c", "s", "s">>, "text/css" >> }

guess_type(types, p) ==
    LET ext == splitext(p)
        own == { t \in types : t[1] = ext }
        std == { t \in DefaultTypes : t[1] = ext }
    IN  IF own # {} THEN (CHOOSE t \in own : TRUE)[2]
        ELSE IF std # {} THEN (CHOOSE t \in std : TRUE)[2]
        ELSE "application/octet-stream"

\* send_head: the code common to GET and HEAD
send_head(files, dirs, types, req) ==
    LET path == req.path
        fp == translate_path(path)
        index == IF isdir(dirs, fp)
                 THEN IF StripSlash(fp) \o <<"/">> \o INDEX_HTML \in files
                      THEN StripSlash(fp) \o <<"/">> \o INDEX_HTML
                      ELSE IF StripSlash(fp) \o <<"/">> \o INDEX_HTM \in files
                      THEN StripSlash(fp) \o <<"/">> \o INDEX_HTM
                      ELSE <<>>
                 ELSE fp
        isHead == req.command = "HEAD"
    IN  IF isdir(dirs, fp) /\ ~EndsWith(fp, <<"/">>)
        THEN \* redirect to the directory url
             [sent |-> TRUE, raised |-> FALSE, status |-> 301,
              headers |-> end_headers(path,
                             StatusHeaders \o
                             << Header("Location", "<path>/"),
                                Header("Content-Length", "0") >>),
              body |-> NoBody]
        ELSE IF isdir(dirs, fp) /\ index = <<>>
        THEN \* list_directory
             [sent |-> TRUE, raised |-> FALSE, status |-> 200,
              headers |-> end_headers(path,
                             StatusHeaders \o
                             << Header("Content-type", "text/html; charset=utf-8"),
                                Header("Content-Length", "<len>") >>),
              body |-> IF isHead THEN NoBody ELSE [kind |-> "listing", of |-> fp]]
        ELSE IF EndsWith(index, <<"/">>) \/ index \notin files
        THEN send_error(path, req.command, 404)
        ELSE IF req.notModified
        THEN [sent |-> TRUE, raised |-> FALSE, status |-> 304,
              headers |-> end_headers(path, StatusHeaders),
              body |-> NoBody]
        ELSE [sent |-> TRUE, raised |-> FALSE, status |-> 200,
              headers |-> end_headers(path,
                             StatusHeaders \o
                             << Header("Content-type", guess_type(types, index)),
                                Header("Content-Length", "<len>"),
                                Header("Last-Modified", "<mtime>") >>),
              body |-> IF isHead THEN NoBody ELSE [kind |-> "file", of |-> index]]

(***************************************************************************)
(* PWAHTTPRequestHandler.do_GET and the dispatch of one request            *)
(***************************************************************************)
do_GET(files, dirs, types, req) ==
    LET path == IF req.path = RootPath THEN IndexPath ELSE req.path
    IN  send_head(files, dirs, types, [req EXCEPT !.path = path])

\* inherited, not overridden: no rewrite of the root path
do_HEAD(files, dirs, types, req) == send_head(files, dirs, types, req)

\* handle_one_request
handle_one_request(files, dirs, types, req) ==
    IF req.line # "ok"
    THEN \* send_error runs before parse_request set self.path:
         \* end_headers reads self.path and raises AttributeError
         RaisedResponse
    ELSE IF req.command = "GET" THEN do_GET(files, dirs, types, req)
    ELSE IF req.command = "HEAD" THEN do_HEAD(files, dirs, types, req)
    ELSE send_error(req.path, req.command, 501)


(***************************************************************************)
(* server.py, the __main__ block                                           *)
(***************************************************************************)
DefaultPort == 8000

ArgChars == {"8", "0", "-", "+", "_", "x"}
Digits == {"8", "0"}

RECURSIVE SeqsUpTo(_, _)
\* the sequences over S of length at most n
SeqsUpTo(S, n) ==
    IF n = 0 THEN {<<>>}
    ELSE LET shorter == SeqsUpTo(S, n - 1)
         IN  shorter \cup { Append(t, c) : t \in shorter, c \in S }

Args == SeqsUpTo(ArgChars, MaxArgLen)

DigitValue(c) == IF c = "8" THEN 8 ELSE 0

RECURSIVE DigitsValue(_, _)
\* the decimal value of the digits of s, underscores skipped
DigitsValue(s, acc) ==
    IF s = <<>> THEN acc
    ELSE IF Head(s) = "_" THEN DigitsValue(Tail(s), acc)
    ELSE DigitsValue(Tail(s), 10 * acc + DigitValue(Head(s)))

\* int(s): an optional sign, then digits, single underscores between digits;
\* anything else raises ValueError (ok = FALSE)
ParseInt(s) ==
    LET signed == Len(s) > 0 /\ s[1] \in {"+", "-"}
        body == IF signed THEN Tail(s) ELSE s
        wellFormed ==
            /\ Len(body) > 0
            /\ \A i \in 1..Len(body) : body[i] \in Digits \cup {"_"}
            /\ body[1] # "_" /\ body[Len(body)] # "_"
            /\ \A i \in 1..(Len(body) - 1) : ~(body[i] = "_" /\ body[i + 1] = "_")
        magnitude == DigitsValue(body, 0)
    IN  [ok |-> wellFormed,
         value |-> IF ~wellFormed THEN 0
                   ELSE IF signed /\ s[1] = "-" THEN 0 - magnitude ELSE magnitude]

\* the port parse without the except clause: ValueError leaves the script
ParsePort_uncaught(args, current) ==
    IF Len(args) = 0 THEN [port |-> current, warned |-> FALSE, raised |-> FALSE]
    ELSE IF ParseInt(args[1]).ok
    THEN [port |-> ParseInt(args[1]).value, warned |-> FALSE, raised |-> FALSE]
    ELSE [port |-> current, warned |-> FALSE, raised |-> TRUE]

\* lines 120-126: if len(sys.argv) > 1: try: port = int(...) except ValueError
ParsePort(args, current) ==
    IF Len(args) = 0 THEN [port |-> current, warned |-> FALSE, raised |-> FALSE]
    ELSE IF ParseInt(args[1]).ok
    THEN [port |-> ParseInt(args[1]).value, warned |-> FALSE, raised |-> FALSE]
    ELSE [port |-> current, warned |-> TRUE, raised |-> FALSE]

InvalidPortWarning == "Invalid port number. Using default port 8000."

ParseArgv ==
    /\ mainPc = "start"
    /\ port' = ParsePort(argv, port).port
    /\ output' = IF ParsePort(argv, port).warned
                 THEN Append(output, InvalidPortWarning)
                 ELSE output
    /\ mainPc' = IF ParsePort(argv, port).raised THEN "crashed" ELSE "call"
    /\ UNCHANGED <<argv, runCalls>>
    /\ UNCHANGED serveVars
    /\ UNCHANGED iconVars

\* line 129: run_server(port)
CallRunServer ==
    /\ mainPc = "call"
    /\ runCalls' = Append(runCalls, port)
    /\ mainPc' = "run_server"
    /\ UNCHANGED <<argv, port, output>>
    /\ UNCHANGED serveVars
    /\ UNCHANGED iconVars

(***************************************************************************)
(* server.py, run_server                                                   *)
(***************************************************************************)
\* lines 79-87: register the mime types, change to the script's directory
AddMimeTypes ==
    /\ mainPc = "run_server"
    /\ mimeTypes' = mimeTypes \cup RegisteredTypes
    /\ mainPc' = "bind"
    /\ UNCHANGED <<argv, port, runCalls, output>>
    /\ UNCHANGED <<state, socketOpen, fsFiles, fsDirs, request, response>>
    /\ UNCHANGED iconVars

\* line 91: socketserver.TCPServer(("", port), ...) binds and listens
BindServer ==
    /\ mainPc = "bind"
    /\ port \in 0..65535
    /\ mainPc' = "serving"
    /\ state' = "BOUND"
    /\ socketOpen' = TRUE
    /\ UNCHANGED <<argv, port, runCalls, output>>
    /\ UNCHANGED <<mimeTypes, fsFiles, fsDirs, request, response>>
    /\ UNCHANGED iconVars

\* line 91: the bind raises (port out of range, in use, not permitted);
\* nothing in run_server catches it
BindFails ==
    /\ mainPc = "bind"
    /\ mainPc' = "crashed"
    /\ state' = "FAILED"
    /\ UNCHANGED <<argv, port, runCalls, output>>
    /\ UNCHANGED <<socketOpen, mimeTypes, fsFiles, fsDirs, request, response>>
    /\ UNCHANGED iconVars

\* lines 93-103: the start-up banner, then serve_forever is entered
PrintBanner ==
    /\ state = "BOUND"
    /\ output' = Append(output, "PWA Server running")
    /\ state' = "LISTENING"
    /\ UNCHANGED <<mainPc, argv, port, runCalls>>
    /\ UNCHANGED <<socketOpen, mimeTypes, fsFiles, fsDirs, request, response>>
    /\ UNCHANGED iconVars

\* Ctrl-C while the banner is printed: outside the try block, the with
\* statement closes the socket and KeyboardInterrupt leaves run_server
InterruptBanner ==
    /\ state = "BOUND"
    /\ state' = "ABORTED"
    /\ mainPc' = "crashed"
    /\ socketOpen' = FALSE
    /\ UNCHANGED <<argv, port, runCalls, output>>
    /\ UNCHANGED <<mimeTypes, fsFiles, fsDirs, request, response>>
    /\ UNCHANGED iconVars

\* serve_forever accepts one connection
AcceptRequest(req) ==
    /\ state = "LISTENING"
    /\ state' = "HANDLING"
    /\ request' = req
    /\ response' = NoResponse
    /\ UNCHANGED mainVars
    /\ UNCHANGED <<socketOpen, mimeTypes, fsFiles, fsDirs>>
    /\ UNCHANGED iconVars

\* the handler runs to its end; an exception it raises is reported by
\* handle_error and the loop goes on
HandleRequest ==
    /\ state = "HANDLING"
    /\ response' = handle_one_request(fsFiles, fsDirs, mimeTypes, request)
    /\ state' = "LISTENING"
    /\ UNCHANGED mainVars
    /\ UNCHANGED <<socketOpen, mimeTypes, fsFiles, fsDirs, request>>
    /\ UNCHANGED iconVars

\* Ctrl-C inside serve_forever, while waiting or while a request is handled
Interrupt ==
    /\ state \in {"LISTENING", "HANDLING"}
    /\ state' = "INTERRUPTED"
    /\ UNCHANGED mainVars
    /\ UNCHANGED <<socketOpen, mimeTypes, fsFiles, fsDirs, request, response>>
    /\ UNCHANGED iconVars

\* serve_forever without the try/except: KeyboardInterrupt leaves run_server
CatchKeyboardInterrupt_uncaught ==
    /\ state = "INTERRUPTED"
    /\ state' = "ABORTED"
    /\ mainPc' = "crashed"
    /\ socketOpen' = FALSE
    /\ UNCHANGED <<argv, port, runCalls, output>>
    /\ UNCHANGED <<mimeTypes, fsFiles, fsDirs, request, response>>
    /\ UNCHANGED iconVars

\* lines 108-110: except KeyboardInterrupt: print the stop message
CatchKeyboardInterrupt ==
    /\ state = "INTERRUPTED"
    /\ output' = Append(output, "Server stopped")
    /\ state' = "STOPPING"
    /\ UNCHANGED <<mainPc, argv, port, runCalls>>
    /\ UNCHANGED <<socketOpen, mimeTypes, fsFiles, fsDirs, request, response>>
    /\ UNCHANGED iconVars

\* leaving the with block closes the listening socket; run_server returns
ExitWith ==
    /\ state = "STOPPING"
    /\ socketOpen' = FALSE
    /\ state' = "SHUTDOWN"
    /\ mainPc' = "exited"
    /\ UNCHANGED <<argv, port, runCalls, output>>
    /\ UNCHANGED <<mimeTypes, fsFiles, fsDirs, request, response>>
    /\ UNCHANGED iconVars


(***************************************************************************)
(* generate_icons.py                                                       *)
(***************************************************************************)
sizes == <<32, 72, 96, 128, 144, 152, 192, 384, 512>>

\* the file name with the size written once
Filename_single(size) ==
    "icons/icon-" \o ToString(size) \o ".png"

\* line 112: f'icons/icon-{size}x{size}.png'
Filename(size) ==
    "icons/icon-" \o ToString(size) \o "x" \o ToString(size) \o ".png"

\* the bounding boxes draw.textbbox may measure: <<left, top, right, bottom>>
MainBoxes == { <<0, 0, 21, 9>>, <<2, 3, 63, 33>> }
SmallBoxes == { <<0, 0, 30, 7>>, <<2, 2, 103, 20>> }

Max(a, b) == IF a >= b THEN a ELSE b

NoText == [drawn |-> FALSE, x |-> 0, y |-> 0, bbox |-> <<0, 0, 0, 0>>,
           font |-> "none", fontSize |-> 0]

\* the font load without the inner try/except: a failing load_default raises
LoadFont_inner_uncaught(arialOk, defaultOk) ==
    IF arialOk THEN [font |-> "arial", raised |-> FALSE]
    ELSE IF defaultOk THEN [font |-> "default", raised |-> FALSE]
    ELSE [font |-> "none", raised |-> TRUE]

\* lines 35-47: truetype("arial.ttf"), else load_default(), else None
LoadFont(arialOk, defaultOk) ==
    IF arialOk THEN [font |-> "arial", raised |-> FALSE]
    ELSE IF defaultOk THEN [font |-> "default", raised |-> FALSE]
    ELSE [font |-> "none", raised |-> FALSE]

\* the main label placed with the right edge of the box taken as its width
MainLabelPos_right_edge(size, bbox) ==
    LET text_width == bbox[3]
        text_height == bbox[4] - bbox[2]
    IN  [x |-> (size - text_width) \div 2,
         y |-> (size - text_height) \div 2 - size \div 8]

\* lines 53-59: where the main label is drawn
MainLabelPos(size, bbox) ==
    LET text_width == bbox[3] - bbox[1]
        text_height == bbox[4] - bbox[2]
    IN  [x |-> (size - text_width) \div 2,
         y |-> (size - text_height) \div 2 - size \div 8]

\* lines 75-80: where the secondary label is drawn
SmallLabelPos(size, bbox) ==
    LET text_width == bbox[3] - bbox[1]
    IN  [x |-> (size - text_width) \div 2,
         y |-> (size * 3) \div 4]

\* the secondary label with the threshold one list entry too low
DrawsSmallLabel_from_72(size) == size >= 72

\* line 65: the secondary label is drawn for the larger icons
DrawsSmallLabel(size) == size >= 96

\* lines 19-83: the canvas and what is drawn on it.  arialOk, defaultOk and
\* smallArialOk say which font loads succeed, mainBox and smallBox are the
\* measured boxes of "PWA" and "OFFLINE".
create_icon(size, filename, arialOk, defaultOk, smallArialOk, mainBox, smallBox) ==
    LET loaded == LoadFont(arialOk, defaultOk)
        hasFont == loaded.font # "none"
        font_size == Max(size \div 8, 12)
        mainPos == MainLabelPos(size, mainBox)
        smallPos == SmallLabelPos(size, smallBox)
    IN  [size |-> size,
         filename |-> filename,
         width |-> size,
         height |-> size,
         rows |-> size,
         raised |-> loaded.raised,
         font |-> loaded.font,
         main |-> IF hasFont /\ ~loaded.raised
                  THEN [drawn |-> TRUE, x |-> mainPos.x, y |-> mainPos.y,
                        bbox |-> mainBox,
                        font |-> loaded.font, fontSize |-> font_size]
                  ELSE NoText,
         small |-> IF hasFont /\ ~loaded.raised /\ DrawsSmallLabel(size)
                   THEN [drawn |-> TRUE, x |-> smallPos.x, y |-> smallPos.y,
                         bbox |-> smallBox,
                         font |-> IF smallArialOk THEN "arial" ELSE loaded.font,
                         fontSize |-> IF smallArialOk THEN Max(size \div 16, 8)
                                      ELSE font_size]
                   ELSE NoText]

NoIcon == [size |-> 0, filename |-> "", width |-> 0, height |-> 0, rows |-> 0,
           raised |-> FALSE, font |-> "none", main |-> NoText, small |-> NoText]

\* line 95: os.makedirs('icons', exist_ok=True)
MakeDirs ==
    /\ iconPc = "start"
    /\ iconsDir' = TRUE
    /\ iconPc' = "loop"
    /\ UNCHANGED <<iconIdx, saved, printed, lastIcon>>
    /\ UNCHANGED mainVars
    /\ UNCHANGED serveVars

\* lines 110-113 with create_icon: one iteration of the loop; the image is
\* saved and the progress line printed unless create_icon raised
CreateIcon(arialOk, defaultOk, smallArialOk, mainBox, smallBox) ==
    /\ iconPc = "loop"
    /\ iconIdx <= Len(sizes)
    /\ LET size == sizes[iconIdx]
           icon == create_icon(size, Filename(size), arialOk, defaultOk,
                               smallArialOk, mainBox, smallBox)
       IN  /\ lastIcon' = icon
           /\ IF icon.raised
              THEN /\ iconPc' = "error"
                   /\ UNCHANGED <<iconIdx, saved, printed>>
              ELSE /\ saved' = Append(saved, [name |-> icon.filename,
                                               width |-> icon.width,
                                               height |-> icon.height])
                   /\ printed' = Append(printed, "Created " \o icon.filename)
                   /\ iconIdx' = iconIdx + 1
                   /\ iconPc' = "loop"
    /\ UNCHANGED iconsDir
    /\ UNCHANGED mainVars
    /\ UNCHANGED serveVars

\* lines 116-117: the summary after the loop
PrintSummary ==
    /\ iconPc = "loop"
    /\ iconIdx > Len(sizes)
    /\ printed' = Append(printed, "Generated " \o ToString(Len(sizes)) \o " icons")
    /\ iconPc' = "done"
    /\ UNCHANGED <<iconIdx, iconsDir, saved, lastIcon>>
    /\ UNCHANGED mainVars
    /\ UNCHANGED serveVars

(***************************************************************************)
(* Specifications                                                          *)
(***************************************************************************)
IdleMain ==
    /\ mainPc = "idle" /\ argv = <<>> /\ port = DefaultPort
    /\ runCalls = <<>> /\ output = <<>>

IdleServe ==
    /\ state = "NOT_STARTED" /\ socketOpen = FALSE /\ mimeTypes = {}
    /\ fsFiles = {} /\ fsDirs = {}
    /\ request = NoRequest /\ response = NoResponse

IdleIcons ==
    /\ iconPc = "idle" /\ iconIdx = 1 /\ iconsDir = FALSE
    /\ saved = <<>> /\ printed = <<>> /\ lastIcon = NoIcon

\* server.py is started: line 117 has set port = 8000
InitMain ==
    /\ mainPc = "start"
    /\ argv \in {<<>>} \cup { <<a>> : a \in Args }
    /\ port = DefaultPort
    /\ runCalls = <<>>
    /\ output = <<>>
    /\ IdleServe
    /\ IdleIcons

NextMain ==
    \/ ParseArgv
    \/ CallRunServer
    \/ AddMimeTypes
    \/ BindServer
    \/ BindFails

SpecMain == InitMain /\ [][NextMain]_vars

\* run_server(8000) has bound its socket in some served directory
InitServer ==
    /\ mainPc = "serving"
    /\ argv = <<>>
    /\ port = DefaultPort
    /\ runCalls = <<DefaultPort>>
    /\ output = <<>>
    /\ state = "BOUND"
    /\ socketOpen = TRUE
    /\ mimeTypes = RegisteredTypes
    /\ fsFiles \in SUBSET PossibleFiles
    /\ fsDirs \in SUBSET PossibleDirs
    /\ request = NoRequest
    /\ response = NoResponse
    /\ IdleIcons

NextServer ==
    \/ PrintBanner
    \/ InterruptBanner
    \/ \E req \in Requests : AcceptRequest(req)
    \/ HandleRequest
    \/ Interrupt
    \/ CatchKeyboardInterrupt
    \/ ExitWith

\* the interpreter goes on with the except clause and the end of the with
\* block once KeyboardInterrupt was raised
SpecServer ==
    /\ InitServer
    /\ [][NextServer]_vars
    /\ WF_vars(CatchKeyboardInterrupt)
    /\ WF_vars(ExitWith)

\* generate_icons.py is started
InitIcons ==
    /\ iconPc = "start"
    /\ iconIdx = 1
    /\ iconsDir \in BOOLEAN
    /\ saved = <<>>
    /\ printed = <<>>
    /\ lastIcon = NoIcon
    /\ IdleMain
    /\ IdleServe

NextIcons ==
    \/ MakeDirs
    \/ \E arialOk \in BOOLEAN, defaultOk \in BOOLEAN, smallArialOk \in BOOLEAN,
          mainBox \in MainBoxes, smallBox \in SmallBoxes :
            CreateIcon(arialOk, defaultOk, smallArialOk, mainBox, smallBox)
    \/ PrintSummary

SpecIcons == InitIcons /\ [][NextIcons]_vars


(***************************************************************************)
(* Properties                                                              *)
(***************************************************************************)
Contains(seq, x) == \E i \in DOMAIN seq : seq[i] = x

HasHeader(headers, h) == Contains(headers, h)

\* header names are case-insensitive: the delegate writes Content-type
IsContentType(name) == name \in {"Content-Type", "Content-type"}

\* the value of the last Content-Type header of the section, "" if none
ContentTypeOf(headers) ==
    LET at == { i \in DOMAIN headers : IsContentType(headers[i][1]) }
    IN  IF at = {} THEN ""
        ELSE headers[CHOOSE i \in at : \A j \in at : j <= i][2]

CarriesFixedHeaders(headers) ==
    /\ HasHeader(headers, <<"Cache-Control", "no-cache, no-store, must-revalidate">>)
    /\ HasHeader(headers, <<"Pragma", "no-cache">>)
    /\ HasHeader(headers, <<"Expires", "0">>)
    /\ HasHeader(headers, <<"X-Content-Type-Options", "nosniff">>)
    /\ HasHeader(headers, <<"X-Frame-Options", "DENY">>)
    /\ HasHeader(headers, <<"X-XSS-Protection", "1; mode=block">>)

\* C1: every response that is sent, whatever the path, the method and the
\* status (200, 301, 304, 404, 501), carries the six fixed headers.
C1_FixedHeadersOnEveryResponse ==
    response.sent => CarriesFixedHeaders(response.headers)

\* an error response of the delegate was sent
C1_Witness ==
    /\ response.sent
    /\ response.status = 404
    /\ request.path = MissingPath

\* C2: once main() has run to its end, each size of the list was saved
\* exactly once, under icons/icon-<size>x<size>.png, as a size x size image,
\* and nothing else was saved.
C2_ExpectedNames ==
    << "icons/icon-32x32.png", "icons/icon-72x72.png", "icons/icon-96x96.png",
       "icons/icon-128x128.png", "icons/icon-144x144.png",
       "icons/icon-152x152.png", "icons/icon-192x192.png",
       "icons/icon-384x384.png", "icons/icon-512x512.png" >>

C2_OneFilePerSize ==
    iconPc = "done" =>
        /\ \A k \in DOMAIN sizes :
              /\ Cardinality({ i \in DOMAIN saved :
                                 saved[i].name = C2_ExpectedNames[k] }) = 1
              /\ \A i \in DOMAIN saved :
                    saved[i].name = C2_ExpectedNames[k] =>
                        saved[i].width = sizes[k] /\ saved[i].height = sizes[k]
        /\ \A i \in DOMAIN saved :
              \E k \in DOMAIN sizes : saved[i].name = C2_ExpectedNames[k]

\* main() has run to its end
C2_Witness ==
    /\ iconPc = "done"
    /\ Len(saved) = 9
    /\ saved[9] = [name |-> "icons/icon-512x512.png", width |-> 512, height |-> 512]

\* C3: a request for / gets the response a request for /index.html gets,
\* whatever the served directory holds.
C3_RootSameAsIndex ==
    (response.sent /\ request.line = "ok" /\ request.path = RootPath) =>
        response = handle_one_request(fsFiles, fsDirs, mimeTypes,
                                      [request EXCEPT !.path = IndexPath])

\* C4: every response to a path that ends with sw.js carries
\* Service-Worker-Allowed: / and its content type is application/javascript,
\* whatever type the delegate wrote and whatever the status.
C4_ServiceWorkerHeaders ==
    (response.sent /\ EndsWith(request.path, SW_JS)) =>
        /\ HasHeader(response.headers, <<"Service-Worker-Allowed", "/">>)
        /\ ContentTypeOf(response.headers) = "application/javascript"

\* an error response, for which the delegate wrote text/html, to such a path
C4_Witness ==
    /\ response.sent
    /\ request.path = XswPath
    /\ response.status = 404
    /\ HasHeader(response.headers, <<"Content-Type", "text/html;charset=utf-8">>)

\* C5: every response to a path that ends with manifest.json has the content
\* type application/manifest+json, whatever type the delegate wrote, and
\* carries the six fixed headers.
C5_ManifestContentType ==
    (response.sent /\ EndsWith(request.path, MANIFEST_JSON)) =>
        /\ ContentTypeOf(response.headers) = "application/manifest+json"
        /\ CarriesFixedHeaders(response.headers)

\* the manifest is absent and the delegate answered with its error page
C5_Witness ==
    /\ response.sent
    /\ request.path = ManifestPath
    /\ request.command = "GET"
    /\ ManifestPath \notin fsFiles
    /\ response.status = 404

\* C6: no argument starts the server on 8000, an argument that is an integer
\* starts it on that integer, any other argument prints the warning and
\* starts it on 8000; the script does not fail before run_server, which is
\* called once.
C6_Expected(args) ==
    IF args = <<>> THEN 8000
    ELSE IF args[1] = <<"8", "0">> THEN 80
    ELSE IF args[1] = <<"8">> THEN 8
    ELSE IF args[1] = <<"+", "8">> THEN 8
    ELSE IF args[1] = <<"-", "8">> THEN 0 - 8
    ELSE IF args[1] \in {<<>>, <<"x">>, <<"8", "x">>, <<"x", "8">>, <<"-">>,
                         <<"-", "-">>, <<"8", "_">>, <<"_", "8">>} THEN 8000
    ELSE IF ParseInt(args[1]).ok THEN ParseInt(args[1]).value
    ELSE 8000

C6_PortSelection ==
    /\ Len(runCalls) <= 1
    /\ mainPc = "start" => runCalls = <<>>
    /\ mainPc = "call" => runCalls = <<>> /\ port = C6_Expected(argv)
    /\ mainPc = "crashed" => runCalls # <<>>
    /\ mainPc \notin {"start", "call"} => runCalls = <<C6_Expected(argv)>>
    /\ mainPc # "start" =>
          ((argv # <<>> /\ ~ParseInt(argv[1]).ok)
              <=> Contains(output, InvalidPortWarning))

\* a non-numeric argument: the warning is printed and run_server(8000) called
C6_Witness ==
    /\ argv = << <<"8", "x">> >>
    /\ mainPc = "run_server"
    /\ runCalls = <<8000>>
    /\ output = <<InvalidPortWarning>>

\* C7: the bound server moves between LISTENING and HANDLING only, leaves
\* them by an interrupt only, and after an interrupt reaches SHUTDOWN with
\* the socket closed and the stop message printed, not an uncaught exception.
C7_Lifecycle ==
    /\ [][ /\ state = "LISTENING" => state' \in {"HANDLING", "INTERRUPTED"}
           /\ state = "HANDLING" => state' \in {"LISTENING", "INTERRUPTED"}
           /\ state' = "SHUTDOWN" => state = "STOPPING"
           /\ state' = "STOPPING" => state = "INTERRUPTED"
           /\ state' = "INTERRUPTED" => state \in {"LISTENING", "HANDLING"} ]_vars
    /\ (state = "INTERRUPTED") ~>
          (/\ state = "SHUTDOWN"
           /\ ~socketOpen
           /\ Contains(output, "Server stopped")
           /\ mainPc = "exited")

\* the interrupt arrived while a request was being handled
C7_Witness ==
    /\ state = "SHUTDOWN"
    /\ ~socketOpen
    /\ request # NoRequest
    /\ response = NoResponse
    /\ output = <<"PWA Server running", "Server stopped">>

\* C8: the secondary label is drawn exactly when size >= 96 and a font was
\* obtained; never without the main label.
C8_SecondaryLabel ==
    lastIcon.size # 0 =>
        /\ lastIcon.small.drawn <=> (lastIcon.size >= 96 /\ lastIcon.font # "none")
        /\ lastIcon.small.drawn => lastIcon.main.drawn

\* an icon below the threshold drawn with a font
C8_Witness ==
    /\ lastIcon.size = 72
    /\ lastIcon.main.drawn
    /\ ~lastIcon.small.drawn

\* C9 as stated: the main label is drawn at x = (size - w) // 2 and
\* y = (size - h) // 2, w and h the measured width and height.
C9_MainLabelCentered ==
    lastIcon.main.drawn =>
        LET w == lastIcon.main.bbox[3] - lastIcon.main.bbox[1]
            h == lastIcon.main.bbox[4] - lastIcon.main.bbox[2]
        IN  /\ lastIcon.main.x = (lastIcon.size - w) \div 2
            /\ lastIcon.main.y = (lastIcon.size - h) \div 2

\* C9 amended: the main label is centered horizontally,
\* x = (size - w) // 2, and drawn one eighth of the size above the vertical
\* center, y = (size - h) // 2 - size // 8.
C9_MainLabelAboveCenter ==
    lastIcon.main.drawn =>
        LET w == lastIcon.main.bbox[3] - lastIcon.main.bbox[1]
            h == lastIcon.main.bbox[4] - lastIcon.main.bbox[2]
        IN  /\ lastIcon.main.x = (lastIcon.size - w) \div 2
            /\ lastIcon.main.y = (lastIcon.size - h) \div 2 - lastIcon.size \div 8

\* a label wider than its icon: the floor division of a negative number
C9_Witness ==
    /\ lastIcon.size = 32
    /\ lastIcon.main.drawn
    /\ lastIcon.main.bbox = <<2, 3, 63, 33>>
    /\ lastIcon.main.x = 0 - 15
    /\ lastIcon.main.y = 0 - 3

\* C10: whichever way the font load ends, create_icon does not raise, the
\* image is saved and its progress line printed; without a font no text is
\* drawn.
C10_FontFailureNotFatal ==
    lastIcon.size # 0 =>
        /\ ~lastIcon.raised
        /\ iconPc # "error"
        /\ \E i \in DOMAIN saved :
              /\ saved[i].name = lastIcon.filename
              /\ printed[i] = "Created " \o lastIcon.filename
        /\ lastIcon.font = "none" =>
              ~lastIcon.main.drawn /\ ~lastIcon.small.drawn

\* both font loads failed for an icon that would carry both labels
C10_Witness ==
    /\ lastIcon.size = 128
    /\ lastIcon.font = "none"
    /\ ~lastIcon.main.drawn
    /\ saved[Len(saved)].name = "icons/icon-128x128.png"
    /\ printed[Len(printed)] = "Created icons/icon-128x128.png"

====
